---- MODULE Spec2Model ----
(***************************************************************************)
(* Report.build of cord19q (src/python/cord19q/report/common.py): the      *)
(* orchestration of search, highlight selection, document grouping,        *)
(* metadata lookup and extraction into calls of the formatter hooks.       *)
(*                                                                         *)
(* The run of build is a sequence of steps (pc), one per statement group   *)
(* of build/highlights/articles; every formatter hook and every            *)
(* collaborator call is appended to `log` in the order the code makes it.  *)
(* The collaborators Query.search/highlights/documents, Extractor.extract  *)
(* and the database cursor live outside common.py; they are deterministic: *)
(* the answer to a call is chosen the first time the call is made and      *)
(* remembered, so the same call gets the same answer (or the same          *)
(* exception) again.                                                       *)
(***************************************************************************)
EXTENDS Integers, Sequences, FiniteSets, TLC

\* ------------------------------------------------------------------ bounds
MaxQueries == 2      \* longest `queries` list given to build
MaxResults == 2      \* longest result list Query.search returns

\* ------------------------------------------------------- program constants
DefaultTopN == 50    \* common.py:44
HighlightDivisor == 10   \* common.py:63

\* ------------------------------------------------------------------ values
None == "None"
Docs == {"d1", "d2"}
Texts == {"A", "B"}
Stray == "Z"          \* a text no search result carries

SeqsUpTo(S, n) == UNION {[1..k -> S] : k \in 0..n}

\* A search match (score, _, article, text); score and the second field are
\* never read by common.py.
Matches == {m \in Docs \X Texts : m # <<"d1", "B">>}
ResultLists == SeqsUpTo(Matches, MaxResults)

\* Column definitions of a report configuration.  Python dicts with optional
\* keys: hasX says whether key X is present.
Col(n, hc, c, hq, q, hqu, qu) ==
    [name |-> n, hasConstant |-> hc, constant |-> c,
     hasQuery |-> hq, query |-> q, hasQuestion |-> hqu, question |-> qu]
cType   == Col("Type", TRUE, "Study", FALSE, "", FALSE, "")
cSize   == Col("Size", FALSE, "", TRUE, "sample size", FALSE, "")
cMethod == Col("Method", FALSE, "", TRUE, "method", TRUE, "What method?")
cTypeQ  == Col("Type", FALSE, "", TRUE, "study type", TRUE, "What type?")

ColumnLists ==
    { <<>>, <<cType, cSize>>, <<cSize, cMethod>>, <<cTypeQ, cType>> }

TaskNames == {"task"}
QueryStrings == {"q1"}
QuerySpecs == [name : TaskNames, query : QueryStrings, columns : ColumnLists]
QueryLists == SeqsUpTo(QuerySpecs, MaxQueries)

\* topn as given by the caller; 0 stands for None / a falsy value.
TopNs == {0, 1, 7}

\* ------------------------------------------------------- sequence helpers
Map1(s) == [i \in 1..Len(s) |-> s[i][1]]
Map2(s) == [i \in 1..Len(s) |-> s[i][2]]
Has(s, x) == \E i \in 1..Len(s) : s[i] = x
Take(s, n) == IF n <= 0 THEN <<>> ELSE SubSeq(s, 1, IF n < Len(s) THEN n ELSE Len(s))

RECURSIVE Dedup(_)
\* s without the later repetitions of an element
Dedup(s) ==
    IF s = <<>> THEN <<>>
    ELSE LET r == Dedup(SubSeq(s, 1, Len(s) - 1))
             x == s[Len(s)]
         IN IF Has(r, x) THEN r ELSE Append(r, x)

\* ------------------------------------------- Report: the pure computations
\* topn = topn if topn else 50
EffectiveTopN(topn) == IF topn # 0 THEN topn ELSE DefaultTopN

\* int(a / b): true division, then truncation toward zero
TruncDiv(a, b) == IF a >= 0 THEN a \div b ELSE -((-a) \div b)

\* the count rounded up instead of truncated
HighlightCountCeil(topn) == (topn + HighlightDivisor - 1) \div HighlightDivisor

\* int(topn / 10), the count handed to Report.highlights
HighlightCount(topn) == TruncDiv(topn, HighlightDivisor)

\* [column["name"] for column in columns]
HeaderNames(columns) == [i \in 1..Len(columns) |-> columns[i].name]

\* [article for _, _, article, text in results if text == highlight]
MatchingArticles(results, highlight) ==
    Map1(SelectSeq(results, LAMBDA m : m[2] = highlight))

\* [-1] instead of [0]: the last matching document
LastMatch(results, highlight) ==
    MatchingArticles(results, highlight)[Len(MatchingArticles(results, highlight))]

\* ...[0] of the list above; the caller guards against the empty list, on
\* which Python raises IndexError
FirstMatch(results, highlight) == MatchingArticles(results, highlight)[1]

\* fields[name] = value on a dict that keeps insertion order: an ordered
\* sequence of <<name, value>> with unique names
DictSet(d, k, v) ==
    IF \E i \in 1..Len(d) : d[i][1] = k
    THEN [i \in 1..Len(d) |-> IF d[i][1] = k THEN <<k, v>> ELSE d[i]]
    ELSE Append(d, <<k, v>>)

DictHas(d, k) == \E i \in 1..Len(d) : d[i][1] = k
DictGet(d, k) == d[CHOOSE i \in 1..Len(d) : d[i][1] = k][2]

\* the default taken even when the column declares a question
QuestionOfAlwaysQuery(column) == column.query

\* column["question"] if "question" in column else column["query"]
QuestionOf(column) == IF column.hasQuestion THEN column.question ELSE column.query

\* the column's name stored in place of its constant
ConstantValueIsName(column) == column.name

\* column["constant"], the value a constant column puts in fields
ConstantValue(column) == column.constant

RECURSIVE ColumnLoop(_, _, _, _)
\* the loop of calculate over columns[i..]: constants go to fields, query
\* columns queue a (name, query, question) triple
ColumnLoop(columns, i, fields, questions) ==
    IF i > Len(columns) THEN [fields |-> fields, questions |-> questions]
    ELSE LET column == columns[i] IN
         IF column.hasConstant
         THEN ColumnLoop(columns, i + 1,
                         DictSet(fields, column.name, ConstantValue(column)), questions)
         ELSE IF column.hasQuery
         THEN ColumnLoop(columns, i + 1, fields,
                         Append(questions,
                                <<column.name, column.query, QuestionOf(column)>>))
         ELSE ColumnLoop(columns, i + 1, fields, questions)

\* the triples calculate hands to extractor.extract
Questions(columns) == ColumnLoop(columns, 1, <<>>, <<>>).questions

RECURSIVE Merge(_, _, _)
\* for name, value in extracted[i..]: fields[name] = value
Merge(fields, extracted, i) ==
    IF i > Len(extracted) THEN fields
    ELSE Merge(DictSet(fields, extracted[i][1], extracted[i][2]), extracted, i + 1)

\* the dict calculate returns, given what extractor.extract returned
Calculate(columns, extracted) ==
    Merge(ColumnLoop(columns, 1, <<>>, <<>>).fields, extracted, 1)

\* Report.buildRow of the base class: a body of a docstring only
BuildRow(article, sections, calculated) == None

\* [row[column] for column in self.names] raises TypeError on a None row as
\* soon as names is not empty
RowRaises(row, names) == row = None /\ Len(names) > 0
RowToList(row, names) == [i \in 1..Len(names) |-> DictGet(row, names[i])]

\* a headers hook that keeps a running list of the column names it was given
HeadersHookAccumulates(names, columns) ==
    LET add[i \in 0..Len(columns)] ==
            IF i = 0 THEN names
            ELSE IF Has(add[i - 1], columns[i].name) THEN add[i - 1]
                 ELSE Append(add[i - 1], columns[i].name)
    IN add[Len(columns)]

\* Report.headers of the base class: a no-op, self.names stays as it is
HeadersHook(names, columns) == names

\* ------------------------------------------ collaborators outside common.py
\* Query.highlights(results, count): a deduplicated selection of at most
\* count of the texts of results, here the first ones in result order
SelectHighlights(results, count) == Take(Dedup(Map2(results)), count)

\* Query.documents(results, limit): document id -> texts, at most limit
\* documents; iteration order is the order of first appearance
DocumentOrder(results, limit) == Take(Dedup(Map1(results)), limit)
Sections(results, uid) == Map2(SelectSeq(results, LAMBDA m : m[1] = uid))

\* Extractor.extract(uid, questions): (name, value) for each queued triple
Answer == "answer"
ExtractAnswers(uid, questions) ==
    [i \in 1..Len(questions) |-> <<questions[i][1], Answer>>]

\* cur.fetchone() after a SELECT ... WHERE id = uid: the row of uid
ArticleRow(uid) == IF uid = "d1" THEN "row1" ELSE "row2"

\* extract skipped when nothing is queued
CallsExtractorIfQueued(questions) == questions # <<>>

\* extractor.extract is called whatever the length of questions (line 163)
CallsExtractor(questions) == TRUE

\* names extended by the column names not seen before
RECURSIVE FirstSeen(_, _)
FirstSeen(names, more) ==
    IF more = <<>> THEN names
    ELSE FirstSeen(IF Has(names, more[1]) THEN names ELSE Append(names, more[1]),
                   Tail(more))
NamesAccumulated(names, columns) == FirstSeen(names, HeaderNames(columns))

\* the row loop of articles reads self.names and never assigns it
NamesAfterReorder(names, columns) == names

\* rows sorted by publication date, newest first (d2 is newer than d1)
SortedByDate(rows) ==
    SelectSeq(rows, LAMBDA r : r.doc = "d2") \o SelectSeq(rows, LAMBDA r : r.doc # "d2")

\* for row in rows: the sort of line 130 is commented out
RowsToWrite(rows) == rows

\* a handler around the extraction that swallows its exception
UncaughtButExtract(kind) == kind # "extract"

\* common.py has no try/except: an exception of any call made by build,
\* highlights, articles or calculate leaves build
Uncaught(kind) == TRUE

\* A call: op, its string arguments a, its integer argument n, its list
\* argument q (results or triples or a dict), and doc: the document the call
\* is about (an argument of execute and extract; for highlight, buildRow and
\* writeRow the document whose data the call carries).
E(op, a, n, q, doc) == [op |-> op, a |-> a, n |-> n, q |-> q, doc |-> doc]

SeparatorCall == E("separator", <<>>, 0, <<>>, "")
SectionCall(name) == E("section", <<name>>, 0, <<>>, "")

\* the calls of lines 51-54
QueryHeaderCalls(query) ==
    <<E("query", <<query.name, query.query>>, 0, <<>>, ""), SeparatorCall>>

\* section before separator
ArticlesHeaderCallsSwapped(columns) ==
    <<SectionCall("Articles"), SeparatorCall,
      E("headers", HeaderNames(columns), 0, <<>>, "")>>

\* the calls of lines 66-72
ArticlesHeaderCalls(columns) ==
    <<SeparatorCall, SectionCall("Articles"),
      E("headers", HeaderNames(columns), 0, <<>>, "")>>

HighlightSelect == "SELECT Authors, Reference"
ArticleSelect == "SELECT Published, Title, Reference, Publication, Source, Design, Size, Sample, Method, Entry"

\* --------------------------------------------------------------- the state
VARIABLES
    queries,     \* build's argument: sequence of [name, query, columns]
    topn,        \* build's argument as given (0: unset)
    names,       \* self.names
    pc,          \* where build stands
    run,         \* number of build calls started on this instance (0, 1, 2)
    T,           \* build's local topn after defaulting
    qi,          \* index of the query being processed
    results,     \* build's local results
    hls,         \* the highlights Query.highlights returned
    hi,          \* index of the next highlight
    documents,   \* the document ids of Query.documents, in iteration order
    di,          \* index of the next document
    rows,        \* articles' local rows
    ri,          \* index of the next row to write
    log,         \* hook and collaborator calls of the current build, in order
    prevLog,     \* log of the build before
    memo         \* the collaborators' answers so far, per collaborator

vars == <<queries, topn, names, pc, run, T, qi, results, hls, hi, documents,
          di, rows, ri, log, prevLog, memo>>
locals == <<results, hls, hi, documents, di, rows, ri>>
inputs == <<queries, topn>>

\* deterministic collaborators: the answer to call k is chosen among R the
\* first time and is the remembered one afterwards
Known(m, k) == \E p \in m : p[1] = k
Recall(m, k) == (CHOOSE p \in m : p[1] = k)[2]
Answers(m, k, R) == IF Known(m, k) THEN {Recall(m, k)} ELSE R
Remember(which, k, r) == [memo EXCEPT ![which] = @ \cup {<<k, r>>}]

SearchAnswers == [ok : {TRUE}, val : ResultLists] \cup {[ok |-> FALSE, val |-> <<>>]}
HighlightAnswers(count) == IF count >= 1 THEN {"ok", "stray", "raise"} ELSE {"ok", "raise"}
DocumentAnswers == {"ok", "raise"}
FetchAnswers == {"ok", "raise"}
ExtractOutcomes == {"ok", "raise"}

Init ==
    /\ queries \in QueryLists
    /\ topn \in TopNs
    /\ names = <<>>
    /\ pc = "idle"
    /\ run = 0
    /\ T = 0
    /\ qi = 0
    /\ results = <<>>
    /\ hls = <<>>
    /\ hi = 0
    /\ documents = <<>>
    /\ di = 0
    /\ rows = <<>>
    /\ ri = 0
    /\ log = <<>>
    /\ prevLog = <<>>
    /\ memo = [search |-> {}, highlights |-> {}, documents |-> {},
               fetch |-> {}, extract |-> {}]

Query == queries[qi]
Emit(e) == log' = Append(log, e)
Raise == pc' = "raised"

\* entry of build: lines 33-46
Enter ==
    /\ run' = run + 1
    /\ prevLog' = log
    /\ log' = <<>>
    /\ T' = EffectiveTopN(topn)
    /\ qi' = 1
    /\ results' = <<>> /\ hls' = <<>> /\ hi' = 0 /\ documents' = <<>>
    /\ di' = 0 /\ rows' = <<>> /\ ri' = 0
    /\ pc' = IF Len(queries) = 0 THEN "done" ELSE "query"
    /\ UNCHANGED <<inputs, names, memo>>

\* build is called on the fresh instance
Build ==
    /\ pc = "idle"
    /\ run = 0
    /\ Enter

\* build is called a second time on the same instance, with the same
\* arguments, after the first call returned or raised
Rebuild ==
    /\ pc \in {"done", "raised"}
    /\ run = 1
    /\ Enter

\* self.query(output, name, query); self.separator(output): lines 47-54
QueryHeader ==
    /\ pc = "query"
    /\ log' = log \o QueryHeaderCalls(Query)
    /\ pc' = "search"
    /\ UNCHANGED <<inputs, names, run, T, qi, locals, prevLog, memo>>

\* results = Query.search(self.embeddings, self.cur, query, topn);
\* self.section(output, "Highlights"): lines 57-60
Search ==
    /\ pc = "search"
    /\ \E r \in Answers(memo.search, Query.query, SearchAnswers) :
        /\ memo' = Remember("search", Query.query, r)
        /\ IF ~r.ok /\ Uncaught("search")
           THEN /\ Emit(E("search", <<Query.query>>, T, <<>>, ""))
                /\ results' = results
                /\ Raise
           ELSE /\ log' = log \o <<E("search", <<Query.query>>, T, <<>>, ""),
                                   SectionCall("Highlights")>>
                /\ results' = r.val
                /\ pc' = "hlsel"
    /\ UNCHANGED <<inputs, names, run, T, qi, hls, hi, documents, di, rows, ri, prevLog>>

\* for highlight in Query.highlights(results, topn): line 91, called from
\* line 63 with int(topn / 10)
HighlightsSelect ==
    /\ pc = "hlsel"
    /\ LET count == HighlightCount(T) IN
       \E r \in Answers(memo.highlights, results, HighlightAnswers(count)) :
        /\ memo' = Remember("highlights", results, r)
        /\ Emit(E("Query.highlights", <<>>, count, results, ""))
        /\ hls' = CASE r = "ok" -> SelectHighlights(results, count)
                    [] r = "stray" -> <<Stray>>
                    [] OTHER -> <<>>
        /\ hi' = 1
        /\ pc' = IF r = "raise" /\ Uncaught("highlights") THEN "raised"
                 ELSE IF hls' = <<>> THEN "arthead" ELSE "hlrow"
    /\ UNCHANGED <<inputs, names, run, T, qi, results, documents, di, rows, ri, prevLog>>

\* one turn of the loop of highlights: lines 93-98
HighlightRow ==
    /\ pc = "hlrow"
    /\ LET highlight == hls[hi]
           next == IF hi < Len(hls) THEN "hlrow" ELSE "arthead"
       IN
       IF MatchingArticles(results, highlight) = <<>>
       THEN \* [...][0] raises IndexError
            /\ IF Uncaught("index") THEN Raise /\ hi' = hi
                                    ELSE pc' = next /\ hi' = hi + 1
            /\ UNCHANGED <<log, memo>>
       ELSE LET uid == FirstMatch(results, highlight)
                execute == E("execute", <<HighlightSelect>>, 0, <<>>, uid)
            IN \E r \in Answers(memo.fetch, <<HighlightSelect, uid>>, FetchAnswers) :
                /\ memo' = Remember("fetch", <<HighlightSelect, uid>>, r)
                /\ IF r = "raise" /\ Uncaught("fetch")
                   THEN /\ log' = Append(log, execute)
                        /\ Raise
                        /\ hi' = hi
                   ELSE LET article == IF r = "ok" THEN ArticleRow(uid) ELSE None IN
                        /\ log' = log \o <<execute,
                                           E("highlight", <<article, highlight>>, 0, <<>>, uid)>>
                        /\ hi' = hi + 1
                        /\ pc' = next
    /\ UNCHANGED <<inputs, names, run, T, qi, results, hls, documents, di, rows, ri, prevLog>>

\* self.separator(output); self.section(output, "Articles");
\* self.headers([column["name"] for column in columns], output): lines 66-72
ArticlesHeader ==
    /\ pc = "arthead"
    /\ log' = log \o ArticlesHeaderCalls(Query.columns)
    /\ names' = HeadersHook(names, Query.columns)
    /\ pc' = "docs"
    /\ UNCHANGED <<inputs, run, T, qi, locals, prevLog, memo>>

\* documents = Query.documents(results, topn); rows = []: lines 112-115
ArticlesDocuments ==
    /\ pc = "docs"
    /\ \E r \in Answers(memo.documents, results, DocumentAnswers) :
        /\ memo' = Remember("documents", results, r)
        /\ Emit(E("Query.documents", <<>>, T, results, ""))
        /\ documents' = IF r = "ok" THEN DocumentOrder(results, T) ELSE <<>>
        /\ di' = 1
        /\ rows' = <<>>
        /\ ri' = 1
        /\ pc' = IF r = "raise" /\ Uncaught("documents") THEN "raised"
                 ELSE IF documents' = <<>> THEN "endquery" ELSE "artrow"
    /\ UNCHANGED <<inputs, names, run, T, qi, results, hls, hi, prevLog>>

\* one turn of the loop over documents: lines 117-127, with calculate
\* (lines 149-166) called at line 124
ArticleStep ==
    /\ pc = "artrow"
    /\ LET uid == documents[di]
           columns == Query.columns
           questions == Questions(columns)
           execute == E("execute", <<ArticleSelect>>, 0, <<>>, uid)
           extract == E("extract", <<>>, 0, questions, uid)
           called == CallsExtractor(questions)
       IN \E f \in Answers(memo.fetch, <<ArticleSelect, uid>>, FetchAnswers) :
          LET fetchRaises == f = "raise" /\ Uncaught("fetch")
              asked == ~fetchRaises /\ called
          IN
          \E x \in IF asked
                   THEN Answers(memo.extract, <<uid, questions>>, ExtractOutcomes)
                   ELSE {"ok"} :
            /\ memo' = [memo EXCEPT
                          !.fetch = @ \cup {<<<<ArticleSelect, uid>>, f>>},
                          !.extract = IF asked THEN @ \cup {<<<<uid, questions>>, x>>}
                                      ELSE @]
            /\ IF fetchRaises
               THEN /\ log' = Append(log, execute)
                    /\ Raise
                    /\ UNCHANGED <<rows, di, ri>>
               ELSE IF asked /\ x = "raise" /\ Uncaught("extract")
               THEN /\ log' = log \o <<execute, extract>>
                    /\ Raise
                    /\ UNCHANGED <<rows, di, ri>>
               ELSE LET article == IF f = "ok" THEN ArticleRow(uid) ELSE None
                        extracted == IF asked /\ x = "ok"
                                     THEN ExtractAnswers(uid, questions) ELSE <<>>
                        calculated == Calculate(columns, extracted)
                        sections == Sections(results, uid)
                        buildRow == E("buildRow", <<article>> \o sections, 0, calculated, uid)
                    IN /\ log' = log \o <<execute>>
                                     \o (IF asked THEN <<extract>> ELSE <<>>)
                                     \o <<buildRow>>
                       /\ rows' = Append(rows, [doc |-> uid,
                                                row |-> BuildRow(article, sections, calculated)])
                       /\ di' = di + 1
                       /\ ri' = 1
                       /\ pc' = IF di < Len(documents) THEN "artrow" ELSE "writerow"
    /\ UNCHANGED <<inputs, names, run, T, qi, results, hls, hi, documents, prevLog>>

\* one turn of the loop over rows: lines 130-135
WriteRow ==
    /\ pc = "writerow"
    /\ names' = NamesAfterReorder(names, Query.columns)
    /\ LET row == RowsToWrite(rows)[ri] IN
       IF RowRaises(row.row, names') /\ Uncaught("row")
       THEN /\ Raise
            /\ UNCHANGED <<log, ri>>
       ELSE /\ Emit(E("writeRow",
                      IF RowRaises(row.row, names') THEN <<>> ELSE RowToList(row.row, names'),
                      0, <<>>, row.doc))
            /\ ri' = ri + 1
            /\ pc' = IF ri < Len(rows) THEN "writerow" ELSE "endquery"
    /\ UNCHANGED <<inputs, run, T, qi, results, hls, hi, documents, di, rows, prevLog, memo>>

\* self.separator(output): line 78; then the loop of line 46 takes the next
\* query, or build returns
EndQuery ==
    /\ pc = "endquery"
    /\ Emit(SeparatorCall)
    /\ pc' = IF qi < Len(queries) THEN "query" ELSE "done"
    /\ qi' = IF qi < Len(queries) THEN qi + 1 ELSE qi
    /\ UNCHANGED <<inputs, names, run, T, locals, prevLog, memo>>

Next ==
    \/ Build
    \/ Rebuild
    \/ QueryHeader
    \/ Search
    \/ HighlightsSelect
    \/ HighlightRow
    \/ ArticlesHeader
    \/ ArticlesDocuments
    \/ ArticleStep
    \/ WriteRow
    \/ EndQuery

Spec == Init /\ [][Next]_vars

\* ================================================================ claims
Finished == pc \in {"done", "raised"}
Positions == 1..Len(log)
\* the index of the query in whose block the call log[i] falls
Block(i) == Cardinality({j \in 1..i : log[j].op = "query"})
ColumnsAt(i) == queries[Block(i)].columns
IsOp(i, op) == i \in Positions /\ log[i].op = op
FetchFor(i, select) == IsOp(i, "execute") /\ log[i].a = <<select>>

\* the formatter hooks and the search, as the formatter and the index see them
Surface == {"query", "separator", "search", "section", "highlight", "headers",
            "writeRow"}

\* the place in a query's block after call e at place ph of query q:
\* 0 query, 1 separator, 2 search, 3 section Highlights, 4 highlight rows,
\* 5 section Articles, 6 headers, 7 rows; -1 when e is out of order
After(q, ph, e) ==
    IF ph = -1 \/ q > Len(queries) THEN [q |-> q, ph |-> -1]
    ELSE LET spec == queries[q]
             to(p) == [q |-> q, ph |-> p]
         IN CASE ph = 0 /\ e.op = "query" /\ e.a = <<spec.name, spec.query>> -> to(1)
              [] ph = 1 /\ e.op = "separator" -> to(2)
              [] ph = 2 /\ e.op = "search" /\ e.a = <<spec.query>> -> to(3)
              [] ph = 3 /\ e.op = "section" /\ e.a = <<"Highlights">> -> to(4)
              [] ph = 4 /\ e.op = "highlight" -> to(4)
              [] ph = 4 /\ e.op = "separator" -> to(5)
              [] ph = 5 /\ e.op = "section" /\ e.a = <<"Articles">> -> to(6)
              [] ph = 6 /\ e.op = "headers"
                        /\ e.a = [i \in 1..Len(spec.columns) |-> spec.columns[i].name] -> to(7)
              [] ph = 7 /\ e.op = "writeRow" -> to(7)
              [] ph = 7 /\ e.op = "separator" -> [q |-> q + 1, ph |-> 0]
              [] OTHER -> to(-1)

RECURSIVE Walk(_, _, _)
Walk(s, i, at) == IF i > Len(s) THEN at ELSE Walk(s, i + 1, After(at.q, at.ph, s[i]))
Place == Walk(SelectSeq(log, LAMBDA e : e.op \in Surface), 1, [q |-> 1, ph |-> 0])

\* C1: when a build has returned or raised, the hooks it called and its
\* searches follow, query after query in input order, the order query,
\* separator, search, section Highlights, highlight rows, separator, section
\* Articles, headers of the query's column names, rows, separator; a build
\* that returned has completed the block of every query.
C1_CallOrder ==
    Finished =>
        /\ Place.ph # -1
        /\ pc = "done" => Place = [q |-> Len(queries) + 1, ph |-> 0]

C1_Witness ==
    /\ pc = "done" /\ Len(queries) = 2
    /\ queries[1].columns # queries[2].columns
    /\ \E i, j \in Positions : log[i].op = "highlight" /\ log[j].op = "writeRow"

\* the derived columns of a column list, as triples, in column order
IsDerived(column) == ~column.hasConstant /\ column.hasQuery
DerivedTriples(columns) ==
    LET d == SelectSeq(columns, IsDerived)
    IN [i \in 1..Len(d) |->
          <<d[i].name, d[i].query,
            IF d[i].hasQuestion THEN d[i].question ELSE d[i].query>>]

\* C2: in a build that has returned or raised, the metadata lookup of a
\* document in articles is followed by exactly one extract call, for that
\* document, carrying all derived triples of the query's columns in column
\* order (question defaulting to query), and then by the row assembly; no
\* extract call is made anywhere else.
C2_OneBatchedExtract ==
    Finished =>
    \A i \in Positions :
        /\ FetchFor(i, ArticleSelect) /\ i < Len(log) =>
              /\ log[i + 1].op = "extract"
              /\ log[i + 1].doc = log[i].doc
              /\ log[i + 1].q = DerivedTriples(ColumnsAt(i))
              /\ i + 1 < Len(log) => log[i + 2].op = "buildRow"
        /\ log[i].op = "extract" => i > 1 /\ FetchFor(i - 1, ArticleSelect)

C2_Witness ==
    \E i \in Positions :
        /\ log[i].op = "extract" /\ Len(log[i].q) = 2
        /\ log[i].q[2][3] # log[i].q[2][2]
        /\ log[i].q[1][3] = log[i].q[1][2]
        /\ IsOp(i + 1, "buildRow")

\* C3 as stated: no extract call carries an empty triple list.
C3_NoCallWhenEmpty ==
    \A i \in Positions : log[i].op = "extract" => log[i].q # <<>>

\* C3 amended: a document of a query without derived columns still gets its
\* one extract call, and the call carries the empty triple list.
C3_EmptyCallStillMade ==
    \A i \in Positions :
        FetchFor(i, ArticleSelect) /\ i < Len(log)
        /\ DerivedTriples(ColumnsAt(i)) = <<>> =>
            /\ log[i + 1].op = "extract"
            /\ log[i + 1].doc = log[i].doc
            /\ log[i + 1].q = <<>>

C3_Witness ==
    \E i \in Positions :
        log[i].op = "extract" /\ log[i].q = <<>> /\ IsOp(i + 1, "buildRow")

\* the column names of the queries q.., appended to names in first-seen order
RECURSIVE SeenThrough(_, _)
SeenThrough(seen, q) ==
    IF q > Len(queries) THEN seen
    ELSE SeenThrough(FirstSeen(seen, HeaderNames(queries[q].columns)), q + 1)

Failed(i) ==
    CASE log[i].op = "search" -> ~Recall(memo.search, log[i].a[1]).ok
      [] log[i].op = "Query.highlights" -> Recall(memo.highlights, log[i].q) = "raise"
      [] log[i].op = "Query.documents" -> Recall(memo.documents, log[i].q) = "raise"
      [] log[i].op = "execute" -> Recall(memo.fetch, <<log[i].a[1], log[i].doc>>) = "raise"
      [] log[i].op = "extract" -> Recall(memo.extract, <<log[i].doc, log[i].q>>) = "raise"
      [] OTHER -> FALSE

\* the highlight selection log[i] returned a text that no result carries
Unmatched(i) ==
    log[i].op = "Query.highlights" /\ Recall(memo.highlights, log[i].q) = "stray"

\* C5: a call that raised is the last call of its build and the build has
\* raised: no hook, no collaborator call and no later query follows it, and
\* it is not made again; a highlight without a matching result stops the
\* build before any further call.
C5_FailureAborts ==
    \A i \in Positions :
        /\ Failed(i) => i = Len(log) /\ pc = "raised"
        /\ Unmatched(i) => i = Len(log) /\ pc \in {"hlrow", "raised"}

C5_Witness ==
    /\ pc = "raised" /\ run = 1
    /\ Len(queries) = 2 /\ qi = 1
    /\ log # <<>> /\ log[Len(log)].op = "extract"
    /\ \E j \in Positions : log[j].op = "highlight"

\* C6: in a build that has returned or raised, the count handed to the
\* highlight selector is floor(T / 10) for T the given topn, or 50 when topn
\* is unset, and the query gets at most that many highlight rows.
C6_HighlightCount ==
    Finished =>
    \A i \in Positions :
        log[i].op = "Query.highlights" =>
            /\ log[i].n = (IF topn = 0 THEN 50 ELSE topn) \div 10
            /\ Cardinality({j \in Positions :
                              log[j].op = "highlight" /\ Block(j) = Block(i)}) <= log[i].n

C6_Witness ==
    /\ topn = 0 /\ pc = "done"
    /\ \E i \in Positions :
        /\ log[i].op = "Query.highlights" /\ log[i].n = 5
        /\ Cardinality({j \in Positions :
                          log[j].op = "highlight" /\ Block(j) = Block(i)}) = 2

\* the results the highlight row log[i] was selected from
ResultsAt(i) ==
    log[CHOOSE j \in 1..i : log[j].op = "Query.highlights" /\ Block(j) = Block(i)].q
\* the document of the earliest result carrying text
EarliestDoc(res, text) ==
    res[CHOOSE k \in 1..Len(res) :
          res[k][2] = text /\ \A m \in 1..(k - 1) : res[m][2] # text][1]

\* C7: every highlight row follows the lookup of the document of the
\* earliest result whose text equals the highlight, and carries what that
\* lookup returned; once the highlights of a query are written there is one
\* row per selected highlight, in selection order.
C7_HighlightAttribution ==
    /\ \A i \in Positions :
          log[i].op = "highlight" =>
              LET doc == EarliestDoc(ResultsAt(i), log[i].a[2]) IN
              /\ FetchFor(i - 1, HighlightSelect)
              /\ log[i - 1].doc = doc
              /\ log[i].a[1] = ArticleRow(doc)
    /\ pc = "arthead" =>
          LET k == Len(hls)
              n == Len(log)
          IN /\ log[n - 2 * k].op = "Query.highlights"
             /\ \A j \in 1..k : /\ log[n - 2 * k + 2 * j].op = "highlight"
                                /\ log[n - 2 * k + 2 * j].a[2] = hls[j]

C7_Witness ==
    /\ pc = "arthead"
    /\ results = << <<"d2", "A">>, <<"d1", "A">> >>
    /\ hls = <<"A">>
    /\ log[Len(log)].op = "highlight" /\ log[Len(log)].doc = "d2"

\* C8: the second build on the instance, with the same arguments, makes the
\* same calls with the same arguments in the same order as the first.
C8_SecondBuildSame == Finished /\ run = 2 => log = prevLog

C8_Witness ==
    /\ pc = "done" /\ run = 2 /\ Len(queries) = 2
    /\ queries[1].columns = <<>> /\ queries[2].columns # <<>>
    /\ \E i, j \in Positions :
          log[i].op = "writeRow" /\ log[j].op = "writeRow" /\ Block(i) # Block(j)

UniqueNames(columns) ==
    \A i, j \in 1..Len(columns) : columns[i].name = columns[j].name => i = j

\* C9: in a build that has returned or raised, the fields calculated for a
\* document hold, for every constant column of a column list with unique
\* names, its constant under its name; and an extract call has no more
\* triples than the list has columns without a constant, none of them named
\* after a constant column.
C9_ConstantPassthrough ==
    Finished =>
    \A i \in Positions :
        LET columns == ColumnsAt(i)
            constants == {k \in 1..Len(columns) : columns[k].hasConstant}
        IN /\ log[i].op = "buildRow" /\ UniqueNames(columns) =>
                \A k \in constants :
                    /\ DictHas(log[i].q, columns[k].name)
                    /\ DictGet(log[i].q, columns[k].name) = columns[k].constant
           /\ log[i].op = "extract" =>
                /\ Len(log[i].q) <= Len(columns) - Cardinality(constants)
                /\ UniqueNames(columns) =>
                     \A t \in 1..Len(log[i].q), k \in constants :
                         log[i].q[t][1] # columns[k].name

C9_Witness ==
    \E i \in Positions :
        /\ log[i].op = "buildRow"
        /\ log[i].q = << <<"Type", "Study">>, <<"Size", Answer>> >>

====
